---- MODULE Spec2Model ----
(***************************************************************************)
(* The real-time client layer of the dashboard: WebSocketService           *)
(* (src/src/services/websocket.ts), a singleton that owns one browser      *)
(* WebSocket, a registry of event handlers and a reconnection policy.      *)
(*                                                                         *)
(* The browser is the environment.  A socket is created CONNECTING; it     *)
(* either opens (onopen) or fails (onerror, then onclose with code 1006,   *)
(* both in one task).  An OPEN socket is closed by the server (close       *)
(* frame, code 1000 or 1001), by the network (code 1006, with or without   *)
(* an error event) or by the client (close(1000): CLOSING, then onclose).  *)
(* close() on a CONNECTING socket fails the connection: CLOSING, then      *)
(* onerror and onclose with code 1006.  A socket that the service no       *)
(* longer references (this.ws was overwritten or nulled) still delivers    *)
(* its callbacks, which are closures over the service.                     *)
(*                                                                         *)
(* Timers (setTimeout) are never cancelled by the code.  They fire in any  *)
(* order, except that the two timers one failing socket arms in the same   *)
(* task fire in deadline order.                                            *)
(***************************************************************************)
EXTENDS Integers, Sequences, FiniteSets, TLC

\* ---- bounds of the model ------------------------------------------------
MaxSockets == 3      \* Spec: sockets ever created (new WebSocket)
MaxConnects == 3     \* Spec: explicit connect() calls
RetrySockets == 6    \* SpecRetry: sockets ever created
BudgetSockets == 6   \* SpecBudget: sockets ever created
BudgetConnects == 2  \* SpecBudget: explicit connect() calls
BusSockets == 2      \* SpecBus: sockets ever created
BusConnects == 2     \* SpecBus: explicit connect() calls
MaxRegs == 1         \* SpecBus: handler registrations alive at once
MaxHandlers == 1     \* SpecBus, SpecMsg: distinct handler functions
MsgRegs == 2         \* SpecMsg: handler registrations alive at once
SubRegs == 3         \* SpecSub: handler registrations alive at once
SubHandlers == 3     \* SpecSub: distinct handler functions
SendSockets == 2     \* SpecSend: sockets ever created
SendConnects == 2    \* SpecSend: explicit connect() calls
UrlSockets == 2      \* SpecUrl: sockets ever created
UrlConnects == 2     \* SpecUrl: explicit connect() calls
ChatMsgs == 2        \* SpecChat: messages held by the store at once
SnapMsgs == 1        \* SpecSnap: messages held by the store at once
FeedGens == 3        \* SpecFeed: generations reported by the server
FeedRegs == 2        \* SpecFeed: handler registrations alive at once
ConvMsgs == 2        \* SpecConv: messages held by the store at once
ConvSockets == 2     \* SpecConv: sockets created in one behaviour
ConvConnects == 2    \* SpecConv: connect() calls of the application
OnceRegs == 3        \* SpecOnce: handler registrations alive at once
GreetRegs == 3       \* SpecGreet: handler registrations alive at once

\* ---- program constants --------------------------------------------------
maxReconnectAttempts == 5
reconnectDelay == 1000
NormalClosure == 1000
GoingAway == 1001
AbnormalClosure == 1006
ErrorRejectDelay == 2000

EventTypes ==
  { "connection_status", "connection_error", "connection_failed",
    "chat_response", "typing_indicator", "reasoning_update",
    "reasoning_complete", "evolution_progress", "evolution_complete",
    "system_metrics", "system_alert", "mcp_server_status",
    "mcp_server_health", "ollama_status", "ollama_model_update",
    "ollama_metrics", "ollama_error" }

\* The keys the registry is read and written under: the Map takes any
\* string, and a key it does not hold reads as the empty list
\* (this.eventHandlers.get(event) || []).
RegistryKeys == EventTypes \cup { "pong", "error", "unknown_x" }

\* The event types the bounded model subscribes handlers to.
SubscribedTypes == { "connection_status", "connection_failed" }

Handlers == 1..MaxHandlers

VARIABLES
  ws,                \* this.ws: 0 is null, otherwise an index of sockets
  sockets,           \* every WebSocket ever created, in creation order
  waiters,           \* connect() promises polling in checkConnection every 100 ms
  isConnecting,      \* this.isConnecting
  reconnectAttempts, \* this.reconnectAttempts
  eventHandlers,     \* this.eventHandlers: event type -> handlers in order
  timers,            \* pending setTimeout callbacks of onerror and handleReconnect
  nCalls,            \* history: explicit connect() calls so far
  step,              \* history: what the last step did
  failedEmits,       \* history: number of connection_failed emits so far
  schedSinceOpen,    \* history: reconnections scheduled since the last onopen
  preDisc,           \* history: reconnect timers that were pending at a disconnect()
  discInFlight,      \* history: disconnect() hit a CONNECTING socket, no connect() since
  stale,             \* history: handlers registered before a disconnect(), not since
  url,               \* this.url, a string as the sequence of its characters
  page,              \* the page: import.meta.env.VITE_WS_URL and window.location
  store,             \* the state of useAppStore (src/src/stores/appStore.ts)
  held               \* the conversations Map object a consumer read at first render

vars == << ws, sockets, waiters, isConnecting, reconnectAttempts,
           eventHandlers, timers, nCalls, step, failedEmits,
           schedSinceOpen, preDisc, discInFlight, stale,
           url, page, store, held >>

\* The fields of WebSocketService and the history kept about it, step aside.
service == << ws, sockets, waiters, isConnecting, reconnectAttempts,
              eventHandlers, timers, nCalls, failedEmits, schedSinceOpen,
              preDisc, discInFlight, stale, url, page >>

\* ---- helpers ------------------------------------------------------------
RECURSIVE Pow2(_)
Pow2(n) == IF n <= 0 THEN 1 ELSE 2 * Pow2(n - 1)

SocketIds == 1..Len(sockets)

\* A socket and the promise of the connect() call that created it: pend is
\* TRUE while that promise is unsettled, explicit tells who made the call.
\* closeArg is the code given to close(), failed marks a connection the
\* browser must fail (close() while CONNECTING).
NewSocket(explicit) ==
  [ rs |-> "CONNECTING", pend |-> TRUE, explicit |-> explicit,
    closeArg |-> 0, failed |-> FALSE ]

Timer(kind, id, delay) == [ kind |-> kind, id |-> id, delay |-> delay ]

ReconnectTimers(ts) == { t \in ts : t.kind = "reconnect" }

ReadyState(sk, w) == IF w = 0 THEN "NONE" ELSE sk[w].rs

\* a slip in line 359: any socket at all counts as connected
IsConnectedAnySocket == ws # 0

\* isConnected(): this.ws?.readyState === WebSocket.OPEN
IsConnected == ReadyState(sockets, ws) = "OPEN"

\* The handler functions that throw when they are invoked.
Throwing == { 1 }

RECURSIVE UntilThrow(_)
UntilThrow(hs) ==
  IF hs = << >> THEN << >>
  ELSE IF Head(hs) \in Throwing THEN << Head(hs) >>
  ELSE << Head(hs) >> \o UntilThrow(Tail(hs))

\* a slip in lines 290-295: no try/catch around the handler call
DispatchNoCatch(hs) == UntilThrow(hs)

\* a slip in line 289: the handlers are walked from the last to the first
DispatchReversed(hs) == [ i \in 1..Len(hs) |-> hs[Len(hs) + 1 - i] ]

\* lines 289-296: handlers.forEach with a try/catch around each call; the
\* handlers that get invoked, in order, out of those that the walk visits
Dispatch(hs) == hs

RECURSIVE RemoveLast(_, _)
\* a slip in lines 264 and 280: lastIndexOf for indexOf
RemoveLast(hs, h) ==
  IF hs = << >> THEN << >>
  ELSE IF hs[Len(hs)] = h THEN SubSeq(hs, 1, Len(hs) - 1)
  ELSE Append(RemoveLast(SubSeq(hs, 1, Len(hs) - 1), h), hs[Len(hs)])

RECURSIVE RemoveFirst(_, _)
\* indexOf(handler) and splice(index, 1): the first occurrence goes
RemoveFirst(hs, h) ==
  IF hs = << >> THEN << >>
  ELSE IF Head(hs) = h THEN Tail(hs)
  ELSE << Head(hs) >> \o RemoveFirst(Tail(hs), h)

\* Handlers that call an unsubscribe function while they run: the first
\* the one that on() returned for itself, the second the one of handler
\* CancelTarget.  They are registered for message events only.
SelfCanceller == 20
OtherCanceller == 21
CancelTarget == 2

\* The list of the event after handler h ran: the unsubscribe function
\* splices the array that emit is walking (lines 264-268).
Cancelled(h, hs) ==
  IF h = SelfCanceller THEN RemoveFirst(hs, SelfCanceller)
  ELSE IF h = OtherCanceller THEN RemoveFirst(hs, CancelTarget)
  ELSE hs

RECURSIVE Walk(_, _, _)
\* handlers.forEach over the live array hs from index k on: the length n is
\* read once at the start, an index past the end of the shortened array
\* has no element and is passed over.
Walk(hs, k, n) ==
  IF k > n \/ k > Len(hs) THEN [ called |-> << >>, left |-> hs ]
  ELSE LET rest == Walk(Cancelled(hs[k], hs), k + 1, n)
       IN [ called |-> << hs[k] >> \o rest.called, left |-> rest.left ]

\* The handlers that forEach visits, and the list it leaves behind.
Visited(hs) == Walk(hs, 1, Len(hs)).called
Remaining(hs) == Walk(hs, 1, Len(hs)).left

\* an exception of a handler leaves emit() when the walk stops early
Escaped(hs) == Len(Dispatch(Visited(hs))) < Len(Visited(hs))

\* emit(event, data): the handlers of the event, in registration order
EmitTo(event) == Dispatch(Visited(eventHandlers[event]))

StatusEvent(c) == [ event |-> "connection_status", connected |-> c, attempts |-> 0 ]
FailedEvent(n) == [ event |-> "connection_failed", connected |-> FALSE, attempts |-> n ]

\* a slip in line 159: only the null test is made
NotOpenNullOnly(sk, w) == w = 0

\* line 159: !this.ws || this.ws.readyState !== WebSocket.OPEN
NotOpen(sk, w) == w = 0 \/ sk[w].rs # "OPEN"

\* WebSocket.send: throws on a null reference and on a CONNECTING socket,
\* transmits on an OPEN one, discards on a CLOSING or CLOSED one
WsSendThrows(sk, w) == w = 0 \/ sk[w].rs = "CONNECTING"

\* sendMessage(type, data): the frames put on the wire, none unless this.ws is OPEN
SendMessage(sk, w, type) ==
  IF NotOpen(sk, w) \/ WsSendThrows(sk, w) \/ sk[w].rs # "OPEN" THEN << >>
  ELSE << [ sock |-> w, type |-> type ] >>

\* sendMessage(type, data) ends in an exception
SendRaises(sk, w) == ~NotOpen(sk, w) /\ WsSendThrows(sk, w)

\* The settlement of one promise: how is "resolved" or "rejected"
Settled(how, explicit) == [ how |-> how, explicit |-> explicit ]

\* A settled promise whose rejection nobody handles: the reconnection timer
\* drops the promise of its connect() call (line 153), the callers of an
\* explicit connect() catch theirs.
Unhandled(p) == p.how = "rejected" /\ ~p.explicit

\* What a step did: the operation, the socket and close event it is about,
\* the emit() calls, the handlers invoked, the frames sent and the promises
\* settled, each in order.  fast counts the consecutive connect() calls
\* answered on the already-open path.
\* trace lists the effects of the step in program order, raised tells that
\* an exception left the method or callback, frame / type / data describe
\* the inbound frame or the call the step handled, handler is the handler
\* argument of the call, after is the kind of frame the step before
\* dropped, result is the value a query returned, target is the URL handed
\* to new WebSocket, arg is the message, list or partial record handed to a
\* mutator of the store.
NoStep ==
  [ op |-> "init", sock |-> 0, code |-> 0, byClient |-> FALSE,
    emitted |-> << >>, called |-> << >>, sent |-> << >>, settled |-> << >>,
    created |-> 0, fast |-> 0, trace |-> << >>, raised |-> FALSE,
    frame |-> "", type |-> "", data |-> "", handler |-> 0, after |-> "",
    result |-> FALSE, target |-> << >>, arg |-> << >> ]

Did(op) == [NoStep EXCEPT !.op = op]

\* ---- the URL of a connection (websocket.ts 58-74) -----------------------
\* Strings that the code inspects are sequences of one-character strings.
WsPrefix == << "w", "s" >>
DefaultArg == << "/" >>
Https == << "h", "t", "t", "p", "s", ":" >>
Http == << "h", "t", "t", "p", ":" >>

\* url.startsWith(pre)
StartsWith(str, pre) ==
  Len(str) >= Len(pre) /\ SubSeq(str, 1, Len(pre)) = pre

\* lines 69-71: `${protocol}//${host}/ws`
DerivedUrl(pg) ==
  (IF pg.protocol = Https THEN << "w", "s", "s", ":" >> ELSE << "w", "s", ":" >>)
    \o << "/", "/" >> \o pg.host \o << "/", "w", "s" >>

\* a slip in lines 60-66: the configured override is looked at first
ResolveUrlEnvFirst(u, pg) ==
  IF pg.env # << >> THEN pg.env
  ELSE IF StartsWith(u, WsPrefix) THEN u
  ELSE DerivedUrl(pg)

\* lines 59-74: the URL handed to new WebSocket
ResolveUrl(u, pg) ==
  IF StartsWith(u, WsPrefix) THEN u
  ELSE IF pg.env # << >> THEN pg.env
  ELSE DerivedUrl(pg)

\* A page served over http from host h, with no VITE_WS_URL.
DefaultPage == [ env |-> << >>, protocol |-> Http, host |-> << "h" >> ]

\* ---- the store (src/src/stores/appStore.ts) -----------------------------
\* a slip in lines 155, 187, 197 and 216: { ...p, ...rec }
MergeOldWins(rec, p) ==
  [ f \in DOMAIN rec \cup DOMAIN p |-> IF f \in DOMAIN rec THEN rec[f] ELSE p[f] ]

\* { ...rec, ...p }: the fields of p overlay those of rec
Merge(rec, p) ==
  [ f \in DOMAIN rec \cup DOMAIN p |-> IF f \in DOMAIN p THEN p[f] ELSE rec[f] ]

\* The values JavaScript takes for false in a condition: '', 0, false, and
\* null and undefined, which the model writes "null" and "undefined".
\* Values of different kinds are told apart by their printed form.
Falsy ==
  { ToString(""), ToString(0), ToString(FALSE), ToString("null"),
    ToString("undefined") }

\* if (v)
Truthy(v) == ToString(v) \notin Falsy

\* data.f, undefined where data has no such key
Field(data, f) == IF f \in DOMAIN data THEN data[f] ELSE "undefined"

\* conversations.get(c) || []
Get(cv, c) == IF c \in DOMAIN cv THEN cv[c] ELSE << >>

\* conversations.set(c, v) on a Map with the contents cv
Put(cv, c, v) == [ k \in DOMAIN cv \cup {c} |-> IF k = c THEN v ELSE cv[k] ]

initialReasoningState ==
  [ isActive |-> FALSE, thoughts |-> << >>, processingTime |-> 0,
    confidence |-> 0, pathsExplored |-> 0, mode |-> "adaptive",
    complexity |-> "moderate" ]

initialEvolutionState ==
  [ isRunning |-> FALSE, currentGeneration |-> 0, maxGenerations |-> 100,
    populationSize |-> 20, bestRecipes |-> << >>, fitnessHistory |-> << >>,
    convergenceMetrics |-> "initial", elapsedTime |-> 0 ]

\* The chat, AI and system fields of the initial state (lines 128-136); the
\* user, search and ui fields are left out, no mutator below reads or writes
\* them.
InitialStore ==
  [ conversations |-> [ c \in { "default" } |-> << >> ],
    activeConversation |-> "default",
    typingUsers |-> {},
    reasoningState |-> initialReasoningState,
    evolutionState |-> initialEvolutionState,
    systemMetrics |-> "null",
    mcpServers |-> << >> ]

\* a slip in line 147: the message replaces the list
AddMessageOverwrites(st, c, m) ==
  [ st EXCEPT !.conversations = Put(@, c, << m >>) ]

addMessage(st, c, m) ==
  [ st EXCEPT !.conversations = Put(@, c, Get(@, c) \o << m >>) ]

updateMessage(st, c, id, p) ==
  [ st EXCEPT !.conversations =
      Put(@, c, [ i \in 1..Len(Get(@, c)) |->
                    IF Get(@, c)[i].id = id THEN Merge(Get(@, c)[i], p)
                    ELSE Get(@, c)[i] ]) ]

setActiveConversation(st, c) ==
  [ st EXCEPT !.activeConversation = c,
              !.conversations = IF c \in DOMAIN @ THEN @ ELSE Put(@, c, << >>) ]

\* a slip in lines 170-171: every conversation is emptied
ClearConversationAll(st, c) ==
  [ st EXCEPT !.conversations =
      [ k \in DOMAIN @ \cup {c} |-> << >> ] ]

clearConversation(st, c) ==
  [ st EXCEPT !.conversations = Put(@, c, << >>) ]

\* a slip in line 180: the whole set is cleared
SetTypingUserClears(st, u, typing) ==
  [ st EXCEPT !.typingUsers = IF Truthy(typing) THEN @ \cup {u} ELSE {} ]

setTypingUser(st, u, typing) ==
  [ st EXCEPT !.typingUsers = IF Truthy(typing) THEN @ \cup {u} ELSE @ \ {u} ]

updateReasoningState(st, p) ==
  [ st EXCEPT !.reasoningState = Merge(@, p) ]

\* a slip in line 197: the update is laid over the default snapshot
UpdateEvolutionOverDefault(st, p) ==
  [ st EXCEPT !.evolutionState = Merge(initialEvolutionState, p) ]

updateEvolutionState(st, p) ==
  [ st EXCEPT !.evolutionState = Merge(@, p) ]

\* a slip in line 192: the reset keeps the thoughts
ResetReasoningKeepsThoughts(st) ==
  [ st EXCEPT !.reasoningState =
      [ initialReasoningState EXCEPT !.thoughts = st.reasoningState.thoughts ] ]

resetReasoningState(st) == [ st EXCEPT !.reasoningState = initialReasoningState ]

resetEvolutionState(st) == [ st EXCEPT !.evolutionState = initialEvolutionState ]

updateSystemMetrics(st, m) == [ st EXCEPT !.systemMetrics = m ]

updateMCPServers(st, servers) == [ st EXCEPT !.mcpServers = servers ]

updateMCPServer(st, id, p) ==
  [ st EXCEPT !.mcpServers =
      [ i \in 1..Len(@) |-> IF @[i].id = id THEN Merge(@[i], p) ELSE @[i] ] ]

\* The Map object read at first render: taken is what it held then, now is
\* what it holds, live tells that it still is the Map of the store.
InitialHeld ==
  [ taken |-> InitialStore.conversations, now |-> InitialStore.conversations,
    live |-> TRUE ]

\* new Map(get().conversations) and set({ conversations }): the store gets a
\* new Map, the old object is left as it is (lines 145, 152, 170).
HeldAfterCopy(h) == [ h EXCEPT !.live = FALSE ]

\* Lines 162-166: the Map of the store itself gets the new key, then a copy
\* of it is installed.
HeldAfterSetActive(h, c) ==
  [ h EXCEPT !.live = FALSE,
             !.now = IF h.live /\ c \notin DOMAIN @ THEN Put(@, c, << >>) ELSE @ ]

InitAt(pg) ==
  /\ ws = 0
  /\ sockets = << >>
  /\ waiters = [ explicit |-> 0, internal |-> 0 ]
  /\ isConnecting = FALSE
  /\ reconnectAttempts = 0
  /\ eventHandlers = [e \in RegistryKeys |-> << >>]
  /\ timers = {}
  /\ nCalls = 0
  /\ step = NoStep
  /\ failedEmits = 0
  /\ schedSinceOpen = 0
  /\ preDisc = {}
  /\ discInFlight = FALSE
  /\ stale = {}
  /\ url = << >>
  /\ page = pg
  /\ store = InitialStore
  /\ held = InitialHeld

\* The state after construction on the default page.
Init == InitAt(DefaultPage)

\* ---- connect() ----------------------------------------------------------
\* a slip in line 36: the ready state compared with CONNECTING, not OPEN
AlreadyOpenWrongState == ReadyState(sockets, ws) = "CONNECTING"

\* line 36: the fast path, this.ws is already OPEN
AlreadyOpen == IsConnected

\* line 41: another attempt is believed to be in flight
AttemptInFlight == isConnecting

Who(explicit) == IF explicit THEN "explicit" ELSE "internal"

\* connect(url), called by the application (explicit) or by the reconnection
\* timer (op names the caller).  urlOk is FALSE when the WebSocket
\* constructor throws (the catch branch).
DoConnect(op, explicit, u, urlOk, maxS) ==
  IF AlreadyOpen THEN
    /\ step' = [Did(op) EXCEPT !.arg = u, !.settled = << Settled("resolved", explicit) >>,
                               !.fast = IF step.op = "connect" THEN step.fast + 1 ELSE 1]
    /\ UNCHANGED << ws, sockets, isConnecting, waiters, url >>
  ELSE IF AttemptInFlight THEN
    \* checkConnection(): not OPEN and still connecting, so poll again later
    /\ waiters' = [waiters EXCEPT ![Who(explicit)] = @ + 1]
    /\ step' = [Did(op) EXCEPT !.arg = u]
    /\ UNCHANGED << ws, sockets, isConnecting, url >>
  ELSE IF ~urlOk THEN
    \* new WebSocket(wsUrl) throws: isConnecting is set and cleared, reject
    /\ isConnecting' = FALSE
    /\ url' = ResolveUrl(u, page)
    /\ step' = [Did(op) EXCEPT !.arg = u, !.settled = << Settled("rejected", explicit) >>]
    /\ UNCHANGED << ws, sockets, waiters >>
  ELSE
    /\ Len(sockets) < maxS
    /\ isConnecting' = TRUE
    /\ url' = ResolveUrl(u, page)
    /\ sockets' = Append(sockets, NewSocket(explicit))
    /\ ws' = Len(sockets) + 1
    /\ step' = [Did(op) EXCEPT !.arg = u, !.created = Len(sockets) + 1,
                               !.target = ResolveUrl(u, page)]
    /\ UNCHANGED waiters

\* connect(u) called by the application
ConnectTo(u, urlOk, maxS, maxC) ==
  /\ nCalls < maxC
  /\ nCalls' = nCalls + 1
  /\ DoConnect("connect", TRUE, u, urlOk, maxS)
  /\ discInFlight' = FALSE
  /\ UNCHANGED << reconnectAttempts, eventHandlers, timers, failedEmits,
                  schedSinceOpen, preDisc, stale, page, store, held >>

\* connect() with no argument: url has its default '/'
Connect(urlOk, maxS, maxC) == ConnectTo(DefaultArg, urlOk, maxS, maxC)

\* checkConnection(), run again by its 100 ms timer, for one waiting promise
PollFires(who) ==
  /\ waiters[who] > 0
  /\ IF IsConnected THEN
       /\ waiters' = [waiters EXCEPT ![who] = @ - 1]
       /\ step' = [Did("poll") EXCEPT
                     !.settled = << Settled("resolved", who = "explicit") >>]
     ELSE IF ~isConnecting THEN
       /\ waiters' = [waiters EXCEPT ![who] = @ - 1]
       /\ step' = [Did("poll") EXCEPT
                     !.settled = << Settled("rejected", who = "explicit") >>]
     ELSE
       /\ step' = Did("poll")
       /\ UNCHANGED waiters
  /\ UNCHANGED << url, page, store, held >>
  /\ UNCHANGED << ws, sockets, isConnecting, reconnectAttempts, eventHandlers,
                  timers, nCalls, failedEmits, schedSinceOpen, preDisc,
                  discInFlight, stale >>

\* ---- socket callbacks ---------------------------------------------------
\* a slip in line 82: the counter survives the open
AttemptsAfterOpenKept == reconnectAttempts

\* line 82: a successful open resets the counter
AttemptsAfterOpen == 0

\* ws.onopen of socket s
\* A handler registered under 'connection_status' that calls
\* sendChatMessage as soon as it is told connected = true.
StatusSender == 30

StatusSenderType == "chat_message"

RECURSIVE HandlerSends(_, _, _)
\* The frames that the handlers hs put on the wire while emit calls them
\* for connected = true.
HandlerSends(hs, sk, w) ==
  IF hs = << >> THEN << >>
  ELSE (IF Head(hs) = StatusSender THEN SendMessage(sk, w, StatusSenderType)
        ELSE << >>) \o HandlerSends(Tail(hs), sk, w)

RECURSIVE CallTrace(_, _, _)
\* What happens while emit calls hs: each call, and the sends inside it.
CallTrace(hs, sk, w) ==
  IF hs = << >> THEN << >>
  ELSE << "call" >>
         \o [ i \in 1..Len(HandlerSends(<< Head(hs) >>, sk, w)) |-> "send" ]
         \o CallTrace(Tail(hs), sk, w)

SocketOpens(s) ==
  /\ s \in SocketIds /\ sockets[s].rs = "CONNECTING"
  /\ sockets' = [sockets EXCEPT ![s].rs = "OPEN", ![s].pend = FALSE]
  /\ isConnecting' = FALSE
  /\ reconnectAttempts' = AttemptsAfterOpen
  /\ schedSinceOpen' = 0
  /\ step' = [Did("open") EXCEPT
                !.sock = s,
                !.emitted = << StatusEvent(TRUE) >>,
                !.called = EmitTo("connection_status"),
                !.sent = HandlerSends(EmitTo("connection_status"), sockets', ws)
                         \o SendMessage(sockets', ws, "ping"),
                !.settled = << Settled("resolved", sockets[s].explicit) >>,
                !.raised = Escaped(eventHandlers["connection_status"])
                           \/ SendRaises(sockets', ws),
                !.trace = << "reset", "emit" >>
                          \o CallTrace(EmitTo("connection_status"), sockets', ws)
                          \o [ i \in 1..Len(SendMessage(sockets', ws, "ping")) |-> "send" ]
                          \o << "resolve" >>]
  /\ UNCHANGED << url, page, store, held >>
  /\ UNCHANGED << ws, waiters, eventHandlers, timers, nCalls, failedEmits,
                  preDisc, discInFlight, stale >>

\* a slip in line 97: the wrong close code is taken for the clean one
CleanCloseWrongCode(code) == code = GoingAway

\* a slip in line 97: every code a server sends on purpose counts as clean
CleanCloseAnyServerCode(code) == code \in { NormalClosure, GoingAway }

\* line 97: only a close with code 1000 is clean
CleanClose(code) == code = NormalClosure

\* a slip in line 140: the budget is never looked at
ExhaustedNever(n) == FALSE

\* a slip in line 140: > for >=
ExhaustedOffByOne(n) == n > maxReconnectAttempts

\* line 140: the retry budget is spent
Exhausted(n) == n >= maxReconnectAttempts

\* a slip in line 147: linear instead of exponential backoff
BackoffDelayLinear(n) == reconnectDelay * n

\* line 147: delay of the n-th attempt
BackoffDelay(n) == reconnectDelay * Pow2(n - 1)

\* The close events the browser can deliver to socket s: <<code, withError>>
CloseOutcomes(s) ==
  CASE sockets[s].rs = "CONNECTING" -> { << AbnormalClosure, TRUE >> }
    [] sockets[s].rs = "OPEN" ->
         { << NormalClosure, FALSE >>, << GoingAway, FALSE >>,
           << AbnormalClosure, FALSE >>, << AbnormalClosure, TRUE >> }
    [] sockets[s].rs = "CLOSING" /\ sockets[s].failed ->
         { << AbnormalClosure, TRUE >> }
    [] sockets[s].rs = "CLOSING" /\ ~sockets[s].failed ->
         { << NormalClosure, FALSE >>, << AbnormalClosure, FALSE >> }
    [] OTHER -> {}

\* Socket s closes: ws.onerror (when the connection failed), then ws.onclose,
\* which calls handleReconnect() unless the close is clean.  The 2000 ms
\* timer of onerror is kept only while the promise it would reject is
\* unsettled: rejecting a settled promise does nothing.
SocketCloses(s, code, withError) ==
  /\ s \in SocketIds
  /\ << code, withError >> \in CloseOutcomes(s)
  /\ sockets' = [sockets EXCEPT ![s].rs = "CLOSED", ![s].closeArg = 0,
                                ![s].failed = FALSE]
  /\ isConnecting' = FALSE
  /\ LET te == IF withError /\ sockets[s].pend
               THEN { Timer("error", s, ErrorRejectDelay) } ELSE {}
         retry == ~CleanClose(code) /\ ~Exhausted(reconnectAttempts)
         giveUp == ~CleanClose(code) /\ Exhausted(reconnectAttempts)
         n == reconnectAttempts + 1
     IN
       /\ reconnectAttempts' = IF retry THEN n ELSE reconnectAttempts
       /\ schedSinceOpen' = IF retry THEN schedSinceOpen + 1 ELSE schedSinceOpen
       /\ timers' = timers \cup te \cup
                    (IF retry THEN { Timer("reconnect", s, BackoffDelay(n)) } ELSE {})
       /\ failedEmits' = IF giveUp THEN failedEmits + 1 ELSE failedEmits
       /\ step' = [Did("close") EXCEPT
            !.sock = s, !.code = code,
            !.byClient = (sockets[s].closeArg # 0),
            !.emitted = << StatusEvent(FALSE) >> \o
                 (IF giveUp THEN << FailedEvent(reconnectAttempts) >> ELSE << >>),
            !.called = EmitTo("connection_status") \o
                 (IF giveUp THEN EmitTo("connection_failed") ELSE << >>),
            !.raised = Escaped(eventHandlers["connection_status"])
                       \/ (giveUp /\ Escaped(eventHandlers["connection_failed"]))]
  /\ UNCHANGED << url, page, store, held >>
  /\ UNCHANGED << ws, waiters, eventHandlers, nCalls, preDisc, discInFlight,
                  stale >>

\* the 2000 ms timer armed by ws.onerror of socket t.id
ErrorTimerFires(t) ==
  /\ t \in timers /\ t.kind = "error"
  /\ ~ \E r \in timers : r.kind = "reconnect" /\ r.id = t.id
                         /\ r.delay < ErrorRejectDelay
  /\ timers' = timers \ {t}
  /\ IF ~IsConnected
     THEN /\ sockets' = [sockets EXCEPT ![t.id].pend = FALSE]
          /\ step' = [Did("errorTimer") EXCEPT
                 !.sock = t.id,
                 !.settled = << Settled("rejected", sockets[t.id].explicit) >>]
     ELSE /\ step' = [Did("errorTimer") EXCEPT !.sock = t.id]
          /\ UNCHANGED sockets
  /\ UNCHANGED << url, page, store, held >>
  /\ UNCHANGED << ws, waiters, isConnecting, reconnectAttempts, eventHandlers,
                  nCalls, failedEmits, schedSinceOpen, preDisc, discInFlight,
                  stale >>

\* line 152: the guard of the reconnection timer
MayReconnect == ws = 0 \/ sockets[ws].rs = "CLOSED"

\* the timer armed by handleReconnect(): connect(this.url), whose
\* new WebSocket(this.url) may throw as in any other connect() call
ReconnectFires(t, maxS) ==
  /\ t \in timers /\ t.kind = "reconnect"
  /\ \/ t.delay < ErrorRejectDelay
     \/ ~ \E e \in timers : e.kind = "error" /\ e.id = t.id
  /\ timers' = timers \ {t}
  /\ IF MayReconnect
     THEN \E urlOk \in BOOLEAN :
            DoConnect("reconnectTimer", FALSE, url, urlOk, maxS)
     ELSE /\ step' = Did("reconnectTimer")
          /\ UNCHANGED << ws, sockets, waiters, isConnecting, url >>
  /\ preDisc' = preDisc \ {t}
  /\ UNCHANGED << page, store, held >>
  /\ UNCHANGED << reconnectAttempts, eventHandlers, nCalls, failedEmits,
                  schedSinceOpen, discInFlight, stale >>

\* ---- disconnect() -------------------------------------------------------
\* WebSocket.close(1000, reason) on a socket record
CloseSocket(r) ==
  IF r.rs = "CONNECTING"
  THEN [r EXCEPT !.rs = "CLOSING", !.failed = TRUE, !.closeArg = NormalClosure]
  ELSE IF r.rs = "OPEN"
  THEN [r EXCEPT !.rs = "CLOSING", !.closeArg = NormalClosure]
  ELSE r

\* a slip in line 136: the registry is left as it is
ClearedHandlersKept == eventHandlers

\* line 136: this.eventHandlers.clear()
ClearedHandlers == [e \in RegistryKeys |-> << >>]

RegisteredHandlers ==
  UNION { { eventHandlers[e][i] : i \in 1..Len(eventHandlers[e]) } :
          e \in RegistryKeys }

Disconnect ==
  /\ sockets' = IF ws = 0 THEN sockets
                ELSE [sockets EXCEPT ![ws] = CloseSocket(@)]
  /\ ws' = 0
  /\ eventHandlers' = ClearedHandlers
  /\ preDisc' = preDisc \cup ReconnectTimers(timers)
  /\ discInFlight' = (discInFlight \/ ReadyState(sockets, ws) = "CONNECTING")
  /\ stale' = stale \cup RegisteredHandlers
  /\ step' = [Did("disconnect") EXCEPT !.sock = ws]
  /\ UNCHANGED << url, page, store, held >>
  /\ UNCHANGED << waiters, isConnecting, reconnectAttempts, timers, nCalls,
                  failedEmits, schedSinceOpen >>

\* ---- on() ---------------------------------------------------------------
RECURSIVE SumLen(_)
SumLen(S) ==
  IF S = {} THEN 0
  ELSE LET e == CHOOSE x \in S : TRUE
       IN Len(eventHandlers[e]) + SumLen(S \ {e})

Registrations == SumLen(RegistryKeys)

On(event, h, maxR) ==
  /\ Registrations < maxR
  /\ eventHandlers' = [eventHandlers EXCEPT ![event] = Append(@, h)]
  /\ stale' = stale \ {h}
  /\ step' = Did("on")
  /\ UNCHANGED << url, page, store, held >>
  /\ UNCHANGED << ws, sockets, waiters, isConnecting, reconnectAttempts,
                  timers, nCalls, failedEmits, schedSinceOpen, preDisc,
                  discInFlight >>

\* ---- off() and the function returned by on() ----------------------------
\* a slip in line 275: the whole registry is cleared
OffAllEverything(reg, event) == [ e \in DOMAIN reg |-> << >> ]

\* line 275: this.eventHandlers.set(event, [])
OffAllOf(reg, event) == [ reg EXCEPT ![event] = << >> ]

Occurs(hs, h) == \E i \in 1..Len(hs) : hs[i] = h

\* off(event, handler)
Off(event, h) ==
  /\ eventHandlers' =
       [eventHandlers EXCEPT ![event] = RemoveFirst(@, h)]
  /\ step' = [Did("off") EXCEPT !.type = event, !.handler = h]
  /\ UNCHANGED << url, page, store, held >>
  /\ UNCHANGED << ws, sockets, waiters, isConnecting, reconnectAttempts,
                  timers, nCalls, failedEmits, schedSinceOpen, preDisc,
                  discInFlight, stale >>

\* off(event)
OffAll(event) ==
  /\ eventHandlers' = OffAllOf(eventHandlers, event)
  /\ step' = [Did("offAll") EXCEPT !.type = event]
  /\ UNCHANGED << url, page, store, held >>
  /\ UNCHANGED << ws, sockets, waiters, isConnecting, reconnectAttempts,
                  timers, nCalls, failedEmits, schedSinceOpen, preDisc,
                  discInFlight, stale >>

\* The function on(event, h) returned, called while h is registered under
\* event or after a disconnect() cleared it.
Unsubscribe(event, h) ==
  /\ Occurs(eventHandlers[event], h) \/ h \in stale
  /\ eventHandlers' =
       [eventHandlers EXCEPT ![event] = RemoveFirst(@, h)]
  /\ step' = [Did("unsubscribe") EXCEPT !.type = event, !.handler = h]
  /\ UNCHANGED << url, page, store, held >>
  /\ UNCHANGED << ws, sockets, waiters, isConnecting, reconnectAttempts,
                  timers, nCalls, failedEmits, schedSinceOpen, preDisc,
                  discInFlight, stale >>

\* ---- onmessage and handleMessage ----------------------------------------
\* The case labels of handleMessage that republish under their own name.
Republished ==
  { "chat_response", "typing_indicator", "reasoning_update",
    "reasoning_complete", "evolution_progress", "evolution_complete",
    "system_metrics", "system_alert", "mcp_server_status",
    "mcp_server_health", "ollama_status", "ollama_model_update",
    "ollama_metrics", "ollama_error" }

\* All the case labels of handleMessage.
CaseLabels == Republished \cup { "pong", "error" }

\* a slip in line 220: the error envelope republished under its own name
RouteErrorAsError(type) ==
  CASE type = "pong" -> ""
    [] type \in Republished -> type
    [] type = "error" -> "error"
    [] OTHER -> ""

\* a slip in line 173: the pong case republishes like the others
RoutePongToo(type) ==
  CASE type \in Republished \cup { "pong" } -> type
    [] type = "error" -> "connection_error"
    [] OTHER -> ""

\* a slip in line 223: the default case republishes the type it met
RouteDefaultToo(type) ==
  CASE type = "pong" -> ""
    [] type = "error" -> "connection_error"
    [] OTHER -> type

\* The switch of handleMessage: the event an envelope of this type is
\* republished as, "" for none.
Route(type) ==
  CASE type = "pong" -> ""
    [] type \in Republished -> type
    [] type = "error" -> "connection_error"
    [] OTHER -> ""

\* The frames a server can put on the connection: an envelope, a text that
\* is no JSON, the JSON text null, and a JSON object without a type.
Payloads == { "p1", "p2" }
Envelope(type, data) == [ kind |-> "envelope", type |-> type, data |-> data ]
Garbage == [ kind |-> "garbage", type |-> "", data |-> "" ]
NullText == [ kind |-> "null", type |-> "", data |-> "" ]
Untyped == [ kind |-> "untyped", type |-> "", data |-> "" ]

\* line 117: JSON.parse(event.data) throws
ParseThrows(f) == f.kind = "garbage"
\* line 171: message.type of null throws
HandleThrows(f) == f.kind = "null"

\* a slip in lines 116-121: no try/catch in onmessage
OnMessageRaisesAll(thrown) == thrown

\* lines 116-121: what is thrown inside the try block is caught and logged
OnMessageRaises(thrown) == FALSE

MessageEvent(event, data) == [ event |-> event, data |-> data ]

\* The kind of frame a step dropped: "unknown" for an envelope of no known
\* type, "unparsable" for a frame that is no envelope, "" otherwise.
Dropped(st) ==
  IF st.op # "message" THEN ""
  ELSE IF st.frame # "envelope" THEN "unparsable"
  ELSE IF st.type \notin CaseLabels THEN "unknown"
  ELSE ""

\* onmessage of socket s, which need not be this.ws
\* The handler that the store's side registers under 'evolution_progress';
\* its id is outside every range of numbered handlers.
EvolutionSubscriber == 9

\* The evolution subscriber merges the reported generation into the
\* Evolution Snapshot.
EvolutionHandler(data, st) ==
  updateEvolutionState(st, [ currentGeneration |-> data.generation ])

\* The handler that ChatInterface registers under 'chat_response' while it
\* renders conversation c: one function per render, it keeps the
\* activeConversation of that render.
ChatSubscriber(c) == IF c = "default" THEN 10 ELSE 11

ChatSubscriberIds == { 10, 11 }

Captured(h) == IF h = 10 THEN "default" ELSE "c1"

\* The handlers that the same effect registers under 'typing_indicator' and
\* under 'connection_status'; the latter sets a state of the component and
\* leaves the store alone.
TypingSubscriber == 12
StatusSubscriber == 13

\* if (data.message)
HasMessage(data) == Truthy(Field(data, "message"))

\* a slip in line 65: the message goes to 'default'
ChatHandlerToDefault(c, data, st) ==
  IF HasMessage(data) THEN addMessage(st, "default", data.message)
  ELSE st

\* ChatInterface.tsx 63-67: if (data.message) addMessage(activeConversation,
\* data.message)
ChatHandler(c, data, st) ==
  IF HasMessage(data) THEN addMessage(st, c, data.message) ELSE st

\* ChatInterface.tsx 69-71: setTypingUser(data.user_id, data.typing)
TypingHandler(data, st) ==
  setTypingUser(st, Field(data, "user_id"), Field(data, "typing"))

\* handler(data) for handler h; the numbered handlers of the bus leave the
\* store alone.
Handle(h, event, data, st) ==
  IF h = EvolutionSubscriber /\ event = "evolution_progress"
  THEN EvolutionHandler(data, st)
  ELSE IF h \in ChatSubscriberIds /\ event = "chat_response"
  THEN ChatHandler(Captured(h), data, st)
  ELSE IF h = TypingSubscriber /\ event = "typing_indicator"
  THEN TypingHandler(data, st)
  ELSE st

\* Some handler of hs installs a new conversations Map for this event.
InstallsMap(hs, event, data) ==
  /\ event = "chat_response"
  /\ \E i \in 1..Len(hs) : hs[i] \in ChatSubscriberIds
  /\ HasMessage(data)

RECURSIVE Absorbed(_, _, _, _)
\* The store after the handlers hs were called one after the other.
Absorbed(hs, event, data, st) ==
  IF hs = << >> THEN st
  ELSE Absorbed(Tail(hs), event, data, Handle(Head(hs), event, data, st))

Receive(s, f) ==
  /\ s \in SocketIds
  /\ sockets[s].rs = "OPEN"
  /\ LET thrown == ParseThrows(f) \/ HandleThrows(f)
         event == IF thrown THEN "" ELSE Route(f.type)
     IN /\ step' = [Did("message") EXCEPT
                      !.sock = s, !.frame = f.kind, !.type = f.type,
                      !.data = f.data, !.after = Dropped(step),
                      !.emitted = IF event = "" THEN << >>
                                  ELSE << MessageEvent(event, f.data) >>,
                      !.called = IF event = "" THEN << >> ELSE EmitTo(event),
                      !.raised = OnMessageRaises(thrown)
                                 \/ (event # "" /\ Escaped(eventHandlers[event]))]
        /\ store' = IF event = "" THEN store
                    ELSE Absorbed(EmitTo(event), event, f.data, store)
        /\ held' = IF event # "" /\ InstallsMap(EmitTo(event), event, f.data)
                   THEN HeldAfterCopy(held) ELSE held
        /\ eventHandlers' =
             IF event = "" THEN eventHandlers
             ELSE [eventHandlers EXCEPT ![event] = Remaining(@)]
  /\ UNCHANGED << url, page >>
  /\ UNCHANGED << ws, sockets, waiters, isConnecting, reconnectAttempts,
                  timers, nCalls, failedEmits, schedSinceOpen,
                  preDisc, discInFlight, stale >>

\* ---- the intent senders and isConnected() -------------------------------
IntentMethods ==
  { "sendChatMessage", "startReasoning", "stopReasoning", "startEvolution",
    "stopEvolution", "requestSystemMetrics", "manageMCPServer" }

\* a slip in line 320: stopReasoning sends the literal of startReasoning
IntentTypeStopAsStart(method) ==
  CASE method = "sendChatMessage" -> "chat_message"
    [] method = "startReasoning" -> "start_reasoning"
    [] method = "stopReasoning" -> "start_reasoning"
    [] method = "startEvolution" -> "start_evolution"
    [] method = "stopEvolution" -> "stop_evolution"
    [] method = "requestSystemMetrics" -> "request_system_metrics"
    [] method = "manageMCPServer" -> "mcp_server_action"

\* The type literal each sender hands to sendMessage.
IntentType(method) ==
  CASE method = "sendChatMessage" -> "chat_message"
    [] method = "startReasoning" -> "start_reasoning"
    [] method = "stopReasoning" -> "stop_reasoning"
    [] method = "startEvolution" -> "start_evolution"
    [] method = "stopEvolution" -> "stop_evolution"
    [] method = "requestSystemMetrics" -> "request_system_metrics"
    [] method = "manageMCPServer" -> "mcp_server_action"

Intent(method) ==
  /\ step' = [Did("intent") EXCEPT
                !.frame = method, !.sock = ws,
                !.sent = SendMessage(sockets, ws, IntentType(method)),
                !.raised = SendRaises(sockets, ws)]
  /\ UNCHANGED << url, page, store, held >>
  /\ UNCHANGED << ws, sockets, waiters, isConnecting, reconnectAttempts,
                  eventHandlers, timers, nCalls, failedEmits, schedSinceOpen,
                  preDisc, discInFlight, stale >>

\* isConnected()
Query ==
  /\ step' = [Did("isConnected") EXCEPT !.sock = ws, !.result = IsConnected]
  /\ UNCHANGED << url, page, store, held >>
  /\ UNCHANGED << ws, sockets, waiters, isConnecting, reconnectAttempts,
                  eventHandlers, timers, nCalls, failedEmits, schedSinceOpen,
                  preDisc, discInFlight, stale >>

\* ---- the mutators of the store -------------------------------------------
\* A call of a mutator: set(...) installs st2, the Map read earlier becomes
\* h2, the service is not involved.
Mutate(op, a, st2, h2) ==
  /\ store' = st2
  /\ held' = h2
  /\ step' = [Did(op) EXCEPT !.arg = a]
  /\ UNCHANGED service

RECURSIVE Stored(_, _)
\* The number of messages in the conversations ks of cv.
Stored(cv, ks) ==
  IF ks = {} THEN 0
  ELSE LET k == CHOOSE x \in ks : TRUE
       IN Len(cv[k]) + Stored(cv, ks \ {k})

AddMessage(c, m, maxM) ==
  /\ Stored(store.conversations, DOMAIN store.conversations) < maxM
  /\ Mutate("addMessage", [ c |-> c, m |-> m ],
            addMessage(store, c, m), HeldAfterCopy(held))

UpdateMessage(c, id, p) ==
  Mutate("updateMessage", [ c |-> c, id |-> id, p |-> p ],
         updateMessage(store, c, id, p), HeldAfterCopy(held))

SetActiveConversation(c) ==
  Mutate("setActiveConversation", [ c |-> c ],
         setActiveConversation(store, c), HeldAfterSetActive(held, c))

ClearConversation(c) ==
  Mutate("clearConversation", [ c |-> c ],
         clearConversation(store, c), HeldAfterCopy(held))

SetTypingUser(u, typing) ==
  Mutate("setTypingUser", [ u |-> u, typing |-> typing ],
         setTypingUser(store, u, typing), held)

UpdateReasoningState(p) ==
  Mutate("updateReasoningState", [ p |-> p ], updateReasoningState(store, p), held)

ResetReasoningState ==
  Mutate("resetReasoningState", << >>, resetReasoningState(store), held)

UpdateEvolutionState(p) ==
  Mutate("updateEvolutionState", [ p |-> p ], updateEvolutionState(store, p), held)

ResetEvolutionState ==
  Mutate("resetEvolutionState", << >>, resetEvolutionState(store), held)

UpdateSystemMetrics(m) ==
  Mutate("updateSystemMetrics", [ m |-> m ], updateSystemMetrics(store, m), held)

UpdateMCPServers(servers) ==
  Mutate("updateMCPServers", [ servers |-> servers ],
         updateMCPServers(store, servers), held)

UpdateMCPServer(id, p) ==
  Mutate("updateMCPServer", [ id |-> id, p |-> p ],
         updateMCPServer(store, id, p), held)

\* ---- specifications -----------------------------------------------------
\* The calls of the application, at most maxC of them connect().
Calls(maxS, maxC) ==
  \/ \E ok \in BOOLEAN : Connect(ok, maxS, maxC)
  \/ Disconnect

\* The browser: socket events and the timers of onerror and handleReconnect.
Environment(maxS) ==
  \/ \E s \in SocketIds : SocketOpens(s)
  \/ \E s \in SocketIds :
       \E o \in CloseOutcomes(s) : SocketCloses(s, o[1], o[2])
  \/ \E t \in timers : ErrorTimerFires(t)
  \/ \E t \in timers : ReconnectFires(t, maxS)

\* The 100 ms timers of the connect() calls that wait on another attempt.
Polls == \E who \in { "explicit", "internal" } : PollFires(who)

Subscribe ==
  \E e \in SubscribedTypes, h \in Handlers : On(e, h, MaxRegs)

\* The reply of the server to the ping of onopen.
KeepAlive == \E s \in SocketIds : Receive(s, Envelope("pong", "p1"))

\* The connection life cycle under any calls of the application.
Next ==
  Calls(MaxSockets, MaxConnects) \/ Environment(MaxSockets) \/ Polls
    \/ KeepAlive

Spec == Init /\ [][Next]_vars

\* One explicit connect() and no further one, then retries down to the
\* exhaustion of the budget.  No connect() call ever waits on another
\* attempt here, so no checkConnection timer exists.
NextRetry == Calls(RetrySockets, 1) \/ Environment(RetrySockets)

SpecRetry == Init /\ [][NextRetry]_vars

\* The retries down to the exhaustion of the budget with further explicit
\* connect() calls, and disconnect(), at any moment in between.
NextBudget ==
  Calls(BudgetSockets, BudgetConnects) \/ Environment(BudgetSockets) \/ Polls

SpecBudget == Init /\ [][NextBudget]_vars

\* The life cycle together with subscriptions.
NextBus ==
  Calls(BusSockets, BusConnects) \/ Environment(BusSockets) \/ Polls \/ Subscribe

SpecBus == Init /\ [][NextBus]_vars

\* One connection from connect() to its close event; what follows the close
\* (the timers, the reconnections) is left to Spec.
Session ==
  \/ \E ok \in BOOLEAN : Connect(ok, 1, 1)
  \/ \E s \in SocketIds : SocketOpens(s)
  \/ \E s \in SocketIds :
       \E o \in CloseOutcomes(s) : SocketCloses(s, o[1], o[2])

\* The frames of one connection, with handlers subscribed under a few of
\* the keys.
MsgKeys == { "chat_response", "error", "connection_error", "pong", "unknown_x" }

Frames ==
  { Envelope(t, d) : t \in CaseLabels \cup { "unknown_x" }, d \in Payloads }
    \cup { Garbage, NullText, Untyped }

Inbound == \E s \in SocketIds, f \in Frames : Receive(s, f)

SubscribeMsg == \E e \in MsgKeys, h \in Handlers : On(e, h, MsgRegs)

NextMsg == Session \/ SubscribeMsg \/ Inbound

SpecMsg == Init /\ [][NextMsg]_vars

\* The registry under on, off and the unsubscribe functions, with the
\* events of one connection published to it.
SubTypes == { "connection_status", "chat_response" }
SubHandlerIds == 1..SubHandlers

Registry ==
  \/ \E e \in SubTypes, h \in SubHandlerIds : On(e, h, SubRegs)
  \/ \E e \in SubTypes, h \in SubHandlerIds : Off(e, h)
  \/ \E e \in SubTypes : OffAll(e)
  \/ \E e \in SubTypes, h \in SubHandlerIds : Unsubscribe(e, h)

ChatReplies == \E s \in SocketIds : Receive(s, Envelope("chat_response", "p1"))

NextSub == Session \/ Registry \/ ChatReplies

SpecSub == Init /\ [][NextSub]_vars

\* The life cycle with the intents of the application.
Intents ==
  \/ \E m \in IntentMethods : Intent(m)
  \/ Query

NextSend ==
  Calls(SendSockets, SendConnects) \/ Environment(SendSockets) \/ Polls
    \/ Intents

SpecSend == Init /\ [][NextSend]_vars

\* connect(u) for a few arguments on a few pages: with and without a
\* VITE_WS_URL, served with and without TLS.
UrlArgs ==
  { DefaultArg,
    << "w", "s", ":", "a" >>,
    << "w", "s", "s", ":", "b" >>,
    << "h", "t", "t", "p", ":", "c" >>,
    << "/", "r", "t" >> }

Pages ==
  { [ env |-> e, protocol |-> pr, host |-> << "h" >> ] :
      e \in { << >>, << "w", "s", ":", "e" >>, << "/", "e" >> },
      pr \in { Http, Https } }

InitUrl == \E pg \in Pages : InitAt(pg)

ConnectsTo ==
  \E u \in UrlArgs, ok \in BOOLEAN : ConnectTo(u, ok, UrlSockets, UrlConnects)

NextUrl == ConnectsTo \/ Environment(UrlSockets) \/ Polls

SpecUrl == InitUrl /\ [][NextUrl]_vars

\* The chat domain of the store: two conversation ids, the two messages of
\* a short exchange, two partial updates.
ConversationIds == { "default", "c1" }

Messages ==
  { [ id |-> "m1", type |-> "user", content |-> "hi" ],
    [ id |-> "m2", type |-> "agent", content |-> "hello" ] }

MessageIds == { "m1", "m2", "m3" }

MessagePartials == { [ content |-> "edited" ], [ metadata |-> "tok" ] }

NextChat ==
  \/ \E c \in ConversationIds, m \in Messages : AddMessage(c, m, ChatMsgs)
  \/ \E c \in ConversationIds, id \in MessageIds, p \in MessagePartials :
       UpdateMessage(c, id, p)
  \/ \E c \in ConversationIds : SetActiveConversation(c)
  \/ \E c \in ConversationIds : ClearConversation(c)

SpecChat == Init /\ [][NextChat]_vars

\* The typing users and the server registry.
UserIds == { "u1", "u2" }

Servers ==
  { [ id |-> "s1", name |-> "files", status |-> "active" ],
    [ id |-> "s2", name |-> "search", status |-> "error" ] }

ServerLists ==
  { << >> } \cup { << a >> : a \in Servers }
    \cup { l \in Servers \X Servers : l[1] # l[2] }

ServerIds == { "s1", "s2", "s3" }

ServerPartials == { [ status |-> "inactive" ], [ lastSeen |-> "now" ] }

NextRegistry ==
  \/ \E u \in UserIds, typing \in BOOLEAN : SetTypingUser(u, typing)
  \/ \E l \in ServerLists : UpdateMCPServers(l)
  \/ \E id \in ServerIds, p \in ServerPartials : UpdateMCPServer(id, p)

SpecRegistry == Init /\ [][NextRegistry]_vars

\* The reasoning and evolution snapshots, with a little of every other
\* domain beside them.
ReasoningPartials ==
  { [ isActive |-> TRUE ],
    [ thoughts |-> << "t1" >> ],
    [ thoughts |-> << "t2", "t3" >>, confidence |-> 1 ] }

EvolutionPartials ==
  { [ isRunning |-> TRUE ],
    [ currentGeneration |-> 1 ],
    [ currentGeneration |-> 2, fitnessHistory |-> << 1 >> ],
    [ maxGenerations |-> 50 ] }

Metrics == { "sampleA", "sampleB" }

NextSnap ==
  \/ \E p \in ReasoningPartials : UpdateReasoningState(p)
  \/ ResetReasoningState
  \/ \E p \in EvolutionPartials : UpdateEvolutionState(p)
  \/ ResetEvolutionState
  \/ \E m \in Messages : AddMessage("default", m, SnapMsgs)
  \/ \E typing \in BOOLEAN : SetTypingUser("u1", typing)
  \/ \E m \in Metrics : UpdateSystemMetrics(m)
  \/ \E a \in Servers : UpdateMCPServers(<< a >>)

SpecSnap == Init /\ [][NextSnap]_vars

\* One connection that carries evolution_progress envelopes, with the
\* store's subscriber and a handler that throws registered for them, and
\* local updates of the Evolution Snapshot in between.
Progress(g) ==
  Envelope("evolution_progress", [ generation |-> g, fitness |-> "f" ])

Feed == \E s \in SocketIds, g \in 1..FeedGens : Receive(s, Progress(g))

SubscribeFeed ==
  \E h \in Throwing \cup { EvolutionSubscriber } :
    On("evolution_progress", h, FeedRegs)

LocalEvolution ==
  \E p \in { [ isRunning |-> TRUE ], [ maxGenerations |-> 50 ] } :
    UpdateEvolutionState(p)

NextFeed == Session \/ SubscribeFeed \/ Feed \/ LocalEvolution

SpecFeed == Init /\ [][NextFeed]_vars

\* One connection that carries chat_response envelopes while ChatInterface
\* mounts, re-renders for another conversation and unmounts.
ChatData == { [ message |-> m ] : m \in Messages } \cup { [ status |-> "ok" ] }

\* A reply whose message is the empty string.
EmptyReply == [ message |-> "" ]

TypingData == { [ user_id |-> "u1", typing |-> t ] : t \in BOOLEAN }

\* The handlers one run of the effect registers, for the conversation c it
\* was rendered with, under each key.
EffectHandlers(c) ==
  [ e \in RegistryKeys |->
      CASE e = "chat_response" -> << ChatSubscriber(c) >>
        [] e = "typing_indicator" -> << TypingSubscriber >>
        [] e = "connection_status" -> << StatusSubscriber >>
        [] OTHER -> << >> ]

EffectHandlerIds == ChatSubscriberIds \cup { TypingSubscriber, StatusSubscriber }

\* The effect of lines 39-82, one synchronous run: unless the service is
\* connected it calls connect() (initializeConnection up to its await), then
\* it subscribes the three handlers, the first with the activeConversation
\* it was rendered with.  One ChatInterface is mounted at a time.  setLoading
\* writes the ui fields of the store, which are left out.
ChatEffect ==
  /\ RegisteredHandlers \cap EffectHandlerIds = {}
  /\ IF IsConnected
     THEN /\ step' = Did("chatEffect")
          /\ UNCHANGED << ws, sockets, waiters, isConnecting, url, nCalls,
                          discInFlight >>
     ELSE /\ nCalls < ConvConnects
          /\ nCalls' = nCalls + 1
          /\ discInFlight' = FALSE
          /\ \E urlOk \in BOOLEAN :
               DoConnect("chatEffect", TRUE, DefaultArg, urlOk, ConvSockets)
  /\ eventHandlers' =
       [ e \in RegistryKeys |->
           eventHandlers[e] \o EffectHandlers(store.activeConversation)[e] ]
  /\ stale' = stale \ EffectHandlerIds
  /\ UNCHANGED << reconnectAttempts, timers, failedEmits, schedSinceOpen,
                  preDisc, page, store, held >>

\* The cleanup of that effect (lines 77-81): the three functions on()
\* returned, called one after the other.
ChatCleanup ==
  \E c \in ConversationIds :
    /\ Occurs(eventHandlers["chat_response"], ChatSubscriber(c))
    /\ eventHandlers' =
         [ e \in RegistryKeys |->
             IF EffectHandlers(c)[e] = << >> THEN eventHandlers[e]
             ELSE RemoveFirst(eventHandlers[e], EffectHandlers(c)[e][1]) ]
    /\ step' = Did("chatCleanup")
    /\ UNCHANGED << url, page, store, held >>
    /\ UNCHANGED << ws, sockets, waiters, isConnecting, reconnectAttempts,
                    timers, nCalls, failedEmits, schedSinceOpen, preDisc,
                    discInFlight, stale >>

ChatFeed ==
  /\ Stored(store.conversations, DOMAIN store.conversations) < ConvMsgs
  /\ \E s \in SocketIds :
       \/ \E d \in ChatData : Receive(s, Envelope("chat_response", d))
       \/ Receive(s, Envelope("chat_response", EmptyReply))

TypingFeed ==
  \E s \in SocketIds, d \in TypingData :
    Receive(s, Envelope("typing_indicator", d))

SwitchConversation == \E c \in ConversationIds : SetActiveConversation(c)

NextConv ==
  Session \/ ChatEffect \/ ChatCleanup \/ ChatFeed \/ TypingFeed
    \/ SwitchConversation \/ Polls

SpecConv == Init /\ [][NextConv]_vars

\* One connection that carries chat_response envelopes to plain handlers
\* and to handlers that unsubscribe while they run.
OnceHandlerIds == { CancelTarget, 3, SelfCanceller, OtherCanceller }

SubscribeOnce == \E h \in OnceHandlerIds : On("chat_response", h, OnceRegs)

NextOnce == Session \/ SubscribeOnce \/ ChatReplies

SpecOnce == Init /\ [][NextOnce]_vars

\* One connection with handlers under 'connection_status', one of which
\* sends an intent when the connection opens.
GreetHandlerIds == { 2, 3, StatusSender }

SubscribeGreet == \E h \in GreetHandlerIds : On("connection_status", h, GreetRegs)

NextGreet == Session \/ SubscribeGreet

SpecGreet == Init /\ [][NextGreet]_vars

\* ---- the claims ---------------------------------------------------------
Connecting == { s \in SocketIds : sockets[s].rs = "CONNECTING" }

\* C1: in every reachable state at most one socket is still connecting, so a
\* connect() made while an attempt is in flight creates no second socket.
C1_AtMostOneAttempt == Cardinality(Connecting) <= 1

\* C2: an explicit connect() made while the session is Open creates no
\* socket, leaves this.ws alone and resolves its promise at once.
C2_ConnectWhileOpen ==
  [][ (nCalls' = nCalls + 1 /\ IsConnected) =>
        /\ sockets' = sockets
        /\ ws' = ws
        /\ step'.created = 0
        /\ step'.settled = << Settled("resolved", TRUE) >> ]_vars

\* Two connect() calls in a row answered while Open, one socket ever created.
C2_TwoCallsWhileOpen ==
  /\ step.op = "connect" /\ step.fast = 2
  /\ IsConnected /\ Len(sockets) = 1

\* C3: a reconnection timer that was pending when disconnect() was called
\* creates no connection when it fires.
C3_DisconnectCancelsTimer ==
  [][ \A t \in preDisc :
        (step'.op = "reconnectTimer" /\ t \in timers /\ t \notin timers')
          => step'.created = 0 ]_vars

\* C4: after a disconnect() made while an attempt was in flight, the session
\* is not Open until the application calls connect() again.
C4_DisconnectWins == discInFlight => ~IsConnected

\* C5: every connect() promise settles; stated on states: an unsettled
\* promise of a connect() that created socket s still has something that
\* can settle it (s may yet open or fail, or the timer of its onerror is
\* pending).
C5_ConnectSettles ==
  \A s \in SocketIds :
    sockets[s].pend =>
      \/ sockets[s].rs \in { "CONNECTING", "CLOSING" }
      \/ \E t \in timers : t.kind = "error" /\ t.id = s

\* The session can no longer become Open by itself.
Quiet ==
  /\ ~IsConnected
  /\ \A s \in SocketIds : sockets[s].rs = "CLOSED"
  /\ ReconnectTimers(timers) = {}

\* C6: an unclean close with the counter at the maximum schedules no timer
\* and emits connection_failed with the attempt count; with one explicit
\* connect() the event is emitted at most once and the session stays
\* disconnected after it.
C6_ExhaustionIsTerminal ==
  [][ /\ (step'.op = "close" /\ step'.code # 1000 /\ reconnectAttempts = 5) =>
           /\ ReconnectTimers(timers') = ReconnectTimers(timers)
           /\ reconnectAttempts' = 5
           /\ step'.emitted = << StatusEvent(FALSE), FailedEvent(5) >>
      /\ (step'.op = "close" /\ (step'.code = 1000 \/ reconnectAttempts < 5)) =>
           failedEmits' = failedEmits
      /\ nCalls' <= 1 =>
           /\ failedEmits' <= 1
           /\ waiters' = [ explicit |-> 0, internal |-> 0 ]
      /\ (nCalls' <= 1 /\ failedEmits' = 1) => Quiet' ]_vars

\* connection_failed has just been emitted, after one explicit connect().
C6_Exhausted ==
  /\ step.op = "close" /\ nCalls = 1 /\ failedEmits = 1
  /\ step.emitted = << StatusEvent(FALSE), FailedEvent(5) >>

DelayTable == << 1000, 2000, 4000, 8000, 16000 >>

\* C7: the n-th reconnection scheduled since the last successful open
\* (n = 1..5) gets the delay 1000 * 2^(n-1).
C7_BackoffDelays ==
  [][ \A t \in ReconnectTimers(timers') \ timers :
        /\ schedSinceOpen' \in 1..5
        /\ schedSinceOpen' = schedSinceOpen + 1
        /\ t.delay = DelayTable[schedSinceOpen']
        /\ (step.op = "open" => t.delay = 1000) ]_vars

\* The fifth reconnection in a row is pending with its 16000 ms delay.
C7_FifthAttempt ==
  /\ schedSinceOpen = 5
  /\ \E t \in timers : t.kind = "reconnect" /\ t.delay = 16000

\* C8: a close event with code 1000 schedules no reconnection and leaves the
\* reconnect-attempt counter alone.
C8_CleanCloseNoReconnect ==
  [][ (step'.op = "close" /\ step'.code = 1000) =>
        /\ ReconnectTimers(timers') = ReconnectTimers(timers)
        /\ reconnectAttempts' = reconnectAttempts ]_vars

\* A clean close arrives while the counter is not zero.
C8_CleanCloseSeen ==
  step.op = "close" /\ step.code = 1000 /\ reconnectAttempts > 0

\* C9, as claimed: every close not initiated by disconnect(), whatever its
\* code, schedules a reconnection while the counter is below the maximum.
C9_AnyForeignCloseReconnects ==
  [][ (step'.op = "close" /\ ~step'.byClient /\ reconnectAttempts < 5) =>
        \E t \in ReconnectTimers(timers') \ timers : t.id = step'.sock ]_vars

\* C9, amended: every close not initiated by disconnect() whose code is not
\* 1000 schedules a reconnection while the counter is below the maximum.
C9_UncleanCloseReconnects ==
  [][ (step'.op = "close" /\ ~step'.byClient /\ step'.code # 1000
         /\ reconnectAttempts < 5) =>
        /\ \E t \in ReconnectTimers(timers') \ timers : t.id = step'.sock
        /\ reconnectAttempts' = reconnectAttempts + 1 ]_vars

\* The server closed an open socket with code 1001 and a retry is pending.
C9_GoingAwayRetried ==
  /\ step.op = "close" /\ ~step.byClient /\ step.code = 1001
  /\ \E t \in timers : t.kind = "reconnect" /\ t.id = step.sock

\* C10: disconnect() calls close(1000) on the current socket, drops the
\* reference and empties the registry; no handler registered before a
\* disconnect() (and not registered again) is invoked afterwards.
C10_DisconnectClearsHandlers ==
  [][ /\ step'.op = "disconnect" =>
           /\ \A e \in RegistryKeys : eventHandlers'[e] = << >>
           /\ ws' = 0
           /\ ReadyState(sockets, ws) \in { "CONNECTING", "OPEN" } =>
                /\ sockets'[ws].rs = "CLOSING"
                /\ sockets'[ws].closeArg = 1000
      /\ \A i \in 1..Len(step'.called) : step'.called[i] \notin stale' ]_vars

\* A later connect() opened and emitted connection_status, and the handler
\* registered before the disconnect() was not invoked.
C10_LaterOpenCallsNobody ==
  /\ step.op = "open" /\ nCalls = 2
  /\ step.emitted = << StatusEvent(TRUE) >>
  /\ stale # {} /\ step.called = << >>

\* C11: onopen resets the reconnect-attempt counter to zero and emits
\* connection_status with connected = true to the subscribers of that event,
\* and does both before it resolves the promise of the attempt.
C11_OpenResetsThenResolves ==
  [][ step'.op = "open" =>
        /\ reconnectAttempts' = 0
        /\ step'.emitted = << StatusEvent(TRUE) >>
        /\ step'.called = eventHandlers["connection_status"]
        /\ step'.settled = << Settled("resolved", sockets[step'.sock].explicit) >>
        /\ LET tr == step'.trace
           IN \E r \in 1..Len(tr) :
                /\ tr[r] = "resolve"
                /\ \E i \in 1..(r - 1) : tr[i] = "reset"
                /\ \E i \in 1..(r - 1) : tr[i] = "emit"
                /\ \A i \in 1..Len(tr) : tr[i] = "call" => i < r
                /\ Cardinality({ i \in 1..Len(tr) : tr[i] = "call" })
                     = Len(eventHandlers["connection_status"]) ]_vars

\* A socket made by a reconnection opened: the counter was positive, it is
\* zero now, and the subscriber was told.
C11_ReconnectedAndTold ==
  /\ step.op = "open" /\ step.sock = 2 /\ nCalls = 1
  /\ reconnectAttempts = 0
  /\ step.called = << 1 >>

\* C12: every onopen sends exactly one ping envelope on the socket that
\* opened, and an inbound pong envelope invokes no handler.
C12_OnePingPerOpen ==
  [][ /\ step'.op = "open" =>
           step'.sent = << [ sock |-> step'.sock, type |-> "ping" ] >>
      /\ (step'.op = "message" /\ step'.type = "pong") =>
           step'.called = << >> ]_vars

\* The inbound vocabulary of the specification.
InboundVocabulary ==
  { "chat_response", "typing_indicator", "reasoning_update",
    "reasoning_complete", "evolution_progress", "evolution_complete",
    "system_metrics", "system_alert", "mcp_server_status",
    "mcp_server_health", "ollama_status", "ollama_model_update",
    "ollama_metrics", "ollama_error", "pong", "error" }

\* C13 as stated: an inbound envelope of any recognized type other than
\* pong, the type error included, is published under its own type name with
\* its data, to the handlers subscribed under that name.
C13_DeliveredUnderOwnName ==
  [][ (step'.op = "message" /\ step'.frame = "envelope"
         /\ step'.type \in InboundVocabulary \ { "pong" }) =>
        /\ step'.emitted = << MessageEvent(step'.type, step'.data) >>
        /\ step'.called = eventHandlers[step'.type] ]_vars

\* C13: an inbound envelope of a recognized type other than pong and error
\* is published under its own type name with its data, to the handlers
\* subscribed under that name, in order; an error envelope is published as
\* connection_error with its data, to the handlers subscribed under
\* connection_error.
C13_DeliveredByRoute ==
  [][ (step'.op = "message" /\ step'.frame = "envelope") =>
        /\ step'.type \in InboundVocabulary \ { "pong", "error" } =>
             /\ step'.emitted = << MessageEvent(step'.type, step'.data) >>
             /\ step'.called = eventHandlers[step'.type]
        /\ step'.type = "error" =>
             /\ step'.emitted = << MessageEvent("connection_error", step'.data) >>
             /\ step'.called = eventHandlers["connection_error"] ]_vars

\* A chat_response envelope with payload p2 reached the subscribed handler.
C13_ChatResponseDelivered ==
  /\ step.op = "message" /\ step.type = "chat_response"
  /\ step.emitted = << MessageEvent("chat_response", "p2") >>
  /\ step.called = << 1 >>

\* C14: an inbound envelope whose type is not in the vocabulary invokes no
\* handler, not even one subscribed under that type, raises nothing, and
\* leaves the socket, isConnecting, the reconnect counter, the timers and the
\* registry as they were; an envelope that arrives right after it is
\* published as any other.
C14_UnknownTypeDropped ==
  [][ /\ (step'.op = "message" /\ step'.frame = "envelope"
            /\ step'.type \notin InboundVocabulary) =>
           /\ step'.emitted = << >> /\ step'.called = << >>
           /\ step'.sent = << >> /\ ~step'.raised
           /\ UNCHANGED << ws, sockets, isConnecting, reconnectAttempts,
                           waiters, timers, eventHandlers, store >>
      /\ (step'.op = "message" /\ step'.after = "unknown"
            /\ step'.type \in InboundVocabulary \ { "pong", "error" }) =>
           /\ step'.emitted = << MessageEvent(step'.type, step'.data) >>
           /\ step'.called = eventHandlers[step'.type] ]_vars

\* With handlers subscribed under unknown_x and under chat_response, an
\* unknown_x envelope was dropped and the chat_response envelope after it
\* reached its handler.
C14_DeliveredAfterUnknown ==
  /\ step.op = "message" /\ step.after = "unknown"
  /\ step.type = "chat_response" /\ step.called = << 1 >>
  /\ eventHandlers["unknown_x"] = << 1 >>

\* C15: an inbound frame that is no envelope (no JSON, null, or an object
\* without a type) invokes no handler, raises nothing out of onmessage, and
\* leaves the socket, isConnecting, the reconnect counter, the timers and the
\* registry as they were; an envelope that arrives right after it is
\* published as any other.
C15_UnparsableFrameDropped ==
  [][ /\ (step'.op = "message" /\ step'.frame # "envelope") =>
           /\ step'.emitted = << >> /\ step'.called = << >>
           /\ step'.sent = << >> /\ ~step'.raised
           /\ UNCHANGED << ws, sockets, isConnecting, reconnectAttempts,
                           waiters, timers, eventHandlers >>
      /\ (step'.op = "message" /\ step'.after = "unparsable"
            /\ step'.type \in InboundVocabulary \ { "pong", "error" }) =>
           /\ step'.emitted = << MessageEvent(step'.type, step'.data) >>
           /\ step'.called = eventHandlers[step'.type] ]_vars

\* A frame that is no JSON was dropped and the chat_response envelope after
\* it reached its handler.
C15_DeliveredAfterGarbage ==
  /\ step.op = "message" /\ step.after = "unparsable"
  /\ step.type = "chat_response" /\ step.called = << 1 >>
  /\ ~step.raised

\* The handlers of hs other than h, in the order of hs.
Others(hs, h) == LET Keep(x) == x # h IN SelectSeq(hs, Keep)

Count(hs, h) == Cardinality({ i \in 1..Len(hs) : hs[i] = h })

\* hs with its first occurrence of h cut out, hs itself if there is none.
WithoutFirst(hs, h) ==
  IF Count(hs, h) = 0 THEN hs
  ELSE LET i == CHOOSE k \in 1..Len(hs) :
                  hs[k] = h /\ \A j \in 1..(k - 1) : hs[j] # h
       IN SubSeq(hs, 1, i - 1) \o SubSeq(hs, i + 1, Len(hs))

\* C16: a publish invokes the handlers subscribed under its event type in
\* registration order; the unsubscribe function of a handler takes one
\* registration of that handler out of the list of its type and leaves the
\* other handlers, and their order, as they were, so that a handler that was
\* registered once is invoked by no later publish.
C16_OrderedAndUnsubscribed ==
  [][ /\ Len(step'.emitted) = 1 =>
           step'.called = eventHandlers[step'.emitted[1].event]
      /\ step'.op = "unsubscribe" =>
           LET old == eventHandlers[step'.type]
               new == eventHandlers'[step'.type]
               h == step'.handler
           IN /\ Others(new, h) = Others(old, h)
              /\ Count(old, h) > 0 => Count(new, h) = Count(old, h) - 1
              /\ Count(old, h) = 0 => new = old
              /\ \A e \in RegistryKeys \ { step'.type } :
                   eventHandlers'[e] = eventHandlers[e] ]_vars

\* Three handlers were subscribed to chat_response on an open connection and
\* the unsubscribe function of handler 2 has been called: 1 and 3 remain.
C16_MiddleHandlerGone ==
  /\ step.op = "unsubscribe" /\ step.type = "chat_response"
  /\ step.handler = 2
  /\ eventHandlers["chat_response"] = << 1, 3 >>
  /\ IsConnected

\* C17: a publish invokes every handler subscribed under its event, also
\* those registered after a handler that throws; no exception leaves the
\* socket callback and the publish puts no envelope on the connection (the
\* ping of onopen aside).
C17_ThrowingHandlerIsolated ==
  [][ Len(step'.emitted) = 1 =>
        LET hs == eventHandlers[step'.emitted[1].event]
        IN /\ Len(step'.called) = Len(hs)
           /\ \A i \in 1..Len(hs) :
                hs[i] \in Throwing =>
                  \A j \in (i + 1)..Len(hs) : step'.called[j] = hs[j]
           /\ ~step'.raised
           /\ \A k \in 1..Len(step'.sent) :
                step'.op = "open" /\ step'.sent[k].type = "ping" ]_vars

\* A chat_response was published to the throwing handler 1 and then to the
\* handlers 2 and 3 registered after it.
C17_CalledAfterThrower ==
  /\ step.op = "message" /\ step.type = "chat_response"
  /\ step.called = << 1, 2, 3 >>
  /\ 1 \in Throwing /\ ~step.raised /\ step.sent = << >>

\* C18: off(type, handler) takes the first registration of the handler out
\* of the list of the type, off(type) empties the list of the type, and both
\* leave the lists of all other types as they were.
C18_OffTouchesOneType ==
  [][ /\ step'.op = "off" =>
           /\ eventHandlers'[step'.type]
                = WithoutFirst(eventHandlers[step'.type], step'.handler)
           /\ \A e \in RegistryKeys \ { step'.type } :
                eventHandlers'[e] = eventHandlers[e]
      /\ step'.op = "offAll" =>
           /\ eventHandlers'[step'.type] = << >>
           /\ \A e \in RegistryKeys \ { step'.type } :
                eventHandlers'[e] = eventHandlers[e] ]_vars

\* off("chat_response") emptied a list while connection_status kept its
\* two handlers in order.
C18_OtherTypeKept ==
  /\ step.op = "offAll" /\ step.type = "chat_response"
  /\ eventHandlers["chat_response"] = << >>
  /\ eventHandlers["connection_status"] = << 3, 2 >>

\* C19: an intent sender called while this.ws is not OPEN, and the ping of
\* an onopen that finds this.ws not OPEN, transmit nothing, raise nothing and
\* change no state of the service; isConnected() returns true exactly when
\* this.ws is an OPEN socket and changes no state.
C19_SendNeedsOpen ==
  [][ /\ (step'.op = "intent" /\ ReadyState(sockets, ws) # "OPEN") =>
           /\ step'.sent = << >> /\ ~step'.raised
           /\ UNCHANGED << ws, sockets, waiters, isConnecting,
                           reconnectAttempts, eventHandlers, timers >>
      /\ (step'.op = "open" /\ ReadyState(sockets', ws') # "OPEN") =>
           step'.sent = << >> /\ ~step'.raised
      /\ step'.op = "isConnected" =>
           /\ step'.result = (ws # 0 /\ sockets[ws].rs = "OPEN")
           /\ UNCHANGED << ws, sockets, waiters, isConnecting,
                           reconnectAttempts, eventHandlers, timers >> ]_vars

\* stopEvolution() was called while the socket was still connecting:
\* nothing was sent and nothing was raised.
C19_IntentWhileConnecting ==
  /\ step.op = "intent" /\ step.frame = "stopEvolution"
  /\ ReadyState(sockets, ws) = "CONNECTING"
  /\ step.sent = << >> /\ ~step.raised

\* The outbound vocabulary of the specification, by intent.
OutboundLiteral ==
  [ sendChatMessage |-> "chat_message",
    startReasoning |-> "start_reasoning",
    stopReasoning |-> "stop_reasoning",
    startEvolution |-> "start_evolution",
    stopEvolution |-> "stop_evolution",
    requestSystemMetrics |-> "request_system_metrics",
    manageMCPServer |-> "mcp_server_action" ]

\* C20: an intent issued while this.ws is OPEN puts exactly one envelope on
\* that socket, with the type literal of the intent; an intent issued while
\* it is not OPEN puts none; and no other step, a reconnection included,
\* puts an intent envelope on any socket.
C20_AtMostOnce ==
  [][ /\ (step'.op = "intent" /\ ReadyState(sockets, ws) = "OPEN") =>
           step'.sent
             = << [ sock |-> ws, type |-> OutboundLiteral[step'.frame] ] >>
      /\ (step'.op = "intent" /\ ReadyState(sockets, ws) # "OPEN") =>
           step'.sent = << >>
      /\ step'.op # "intent" =>
           \A k \in 1..Len(step'.sent) : step'.sent[k].type = "ping" ]_vars

\* After a reconnection stopReasoning() put one stop_reasoning envelope on
\* the second socket.
C20_SentOnceAfterReconnect ==
  /\ step.op = "intent" /\ step.frame = "stopReasoning"
  /\ ws = 2 /\ nCalls = 1
  /\ step.sent = << [ sock |-> 2, type |-> "stop_reasoning" ] >>

\* C21: no step rejects a promise that nobody handles; in particular the
\* promise of a connect() made by the reconnection timer is never rejected
\* unhandled.
C21_NoUnhandledRejection ==
  [][ \A i \in 1..Len(step'.settled) : ~Unhandled(step'.settled[i]) ]_vars

\* The scheme of the derived URL: secure exactly when the page is.
Scheme(pg) ==
  IF pg.protocol = Https THEN << "w", "s", "s", ":" >> ELSE << "w", "s", ":" >>

Creating == step'.op \in { "connect", "reconnectTimer" } /\ step'.created # 0

\* C22: as stated: a socket created by connect(u) targets u whenever u was
\* supplied (is not the default '/'), otherwise the configured override if
\* one is set, otherwise the URL derived from the page origin.
C22_ExplicitAlwaysWins ==
  [][ Creating =>
        step'.target =
          IF step'.arg # DefaultArg THEN step'.arg
          ELSE IF page.env # << >> THEN page.env
          ELSE Scheme(page) \o << "/", "/" >> \o page.host \o << "/", "w", "s" >> ]_vars

\* C22 (amended): a socket created by connect(u) targets u whenever u begins
\* with 'ws'; any other argument counts as not supplied, and the target is
\* then the configured override if one is set, otherwise the URL derived
\* from the page origin, with the secure scheme exactly when the page is
\* loaded over https.
C22_ResolutionOrder ==
  [][ Creating =>
        /\ (Len(step'.arg) >= 2 /\ step'.arg[1] = "w" /\ step'.arg[2] = "s")
              => step'.target = step'.arg
        /\ (~(Len(step'.arg) >= 2 /\ step'.arg[1] = "w" /\ step'.arg[2] = "s")
               /\ page.env # << >>)
              => step'.target = page.env
        /\ (~(Len(step'.arg) >= 2 /\ step'.arg[1] = "w" /\ step'.arg[2] = "s")
               /\ page.env = << >>)
              => /\ step'.target =
                     Scheme(page) \o << "/", "/" >> \o page.host \o << "/", "w", "s" >>
                 /\ (step'.target[3] = "s") <=> (page.protocol = Https) ]_vars

\* C22 witness: an explicit wss: URL was used although an override is set.
C22_ExplicitBeatsOverride ==
  /\ step.op = "connect"
  /\ step.created # 0
  /\ step.arg = << "w", "s", "s", ":", "b" >>
  /\ page.env = << "w", "s", ":", "e" >>
  /\ step.target = step.arg

\* C23: an addMessage(c, m) step leaves conversation c equal to what it was
\* (empty when c was absent) followed by m, one longer, creates c when it
\* was absent, and leaves every other conversation as it was; so a
\* conversation that starts empty is the sequence of the added messages.
C23_AddMessageAppends ==
  [][ step'.op = "addMessage" =>
        LET c == step'.arg.c
            old == IF c \in DOMAIN store.conversations
                   THEN store.conversations[c] ELSE << >>
            new == store'.conversations
        IN /\ c \in DOMAIN new
           /\ Len(new[c]) = Len(old) + 1
           /\ new[c][Len(new[c])] = step'.arg.m
           /\ \A i \in 1..Len(old) : new[c][i] = old[i]
           /\ DOMAIN new = DOMAIN store.conversations \cup {c}
           /\ \A k \in DOMAIN store.conversations \ {c} :
                new[k] = store.conversations[k] ]_vars

\* C23 witness: after addMessage('default', m1) and addMessage('default',
\* m2) the conversation is m1 ('hi'), then m2 ('hello').
C23_HiThenHello ==
  /\ step.op = "addMessage"
  /\ Len(store.conversations["default"]) = 2
  /\ store.conversations["default"][1].content = "hi"
  /\ store.conversations["default"][2].content = "hello"

\* rec with the fields of p laid over it, stated field by field.
Overlaid(new, rec, p) ==
  /\ DOMAIN new = DOMAIN rec \cup DOMAIN p
  /\ \A f \in DOMAIN p : new[f] = p[f]
  /\ \A f \in DOMAIN rec \ DOMAIN p : new[f] = rec[f]

\* C24: an updateMessage(c, id, p) step overlays p on the message with that
\* id and keeps its other fields, every other message, the order and the
\* length; when no message has that id, or conversation c does not exist,
\* the conversations mapping is left as it was.
C24_UpdateMessageMerges ==
  [][ step'.op = "updateMessage" =>
        LET c == step'.arg.c
            old == store.conversations
            new == store'.conversations
        IN IF c \in DOMAIN old /\ \E i \in 1..Len(old[c]) : old[c][i].id = step'.arg.id
           THEN /\ DOMAIN new = DOMAIN old
                /\ \A k \in DOMAIN old \ {c} : new[k] = old[k]
                /\ Len(new[c]) = Len(old[c])
                /\ \A i \in 1..Len(old[c]) :
                     IF old[c][i].id = step'.arg.id
                     THEN Overlaid(new[c][i], old[c][i], step'.arg.p)
                     ELSE new[c][i] = old[c][i]
           ELSE new = old ]_vars

\* C25: an updateMCPServer(id, p) step is a keyed upsert: when no record
\* with this id is in the registry one is inserted, when one is present p
\* is laid over it; the records with other ids are as they were.
C25_KeyedUpsert ==
  [][ step'.op = "updateMCPServer" =>
        LET id == step'.arg.id
            old == store.mcpServers
            new == store'.mcpServers
        IN /\ \E j \in 1..Len(new) : new[j].id = id
           /\ \A i \in 1..Len(old) :
                IF old[i].id = id
                THEN \E j \in 1..Len(new) : Overlaid(new[j], old[i], step'.arg.p)
                ELSE \E j \in 1..Len(new) : new[j] = old[i]
           /\ \A j \in 1..Len(new) :
                new[j].id # id => \E i \in 1..Len(old) : old[i] = new[j] ]_vars

\* C26: an evolution_progress envelope with data {generation: g, fitness}
\* that arrives on the open connection while the store's subscriber is
\* registered leaves the Evolution Snapshot with currentGeneration = g and
\* with every field that the payload does not name as it was.
C26_ProgressSetsGeneration ==
  [][ ( /\ step'.op = "message"
        /\ step'.type = "evolution_progress"
        /\ \E i \in 1..Len(eventHandlers["evolution_progress"]) :
             eventHandlers["evolution_progress"][i] = EvolutionSubscriber )
      => /\ store'.evolutionState.currentGeneration = step'.data.generation
         /\ \A f \in DOMAIN store.evolutionState
                    \ { "currentGeneration", "fitnessHistory" } :
              store'.evolutionState[f] = store.evolutionState[f]
         /\ \A f \in DOMAIN store \ { "evolutionState" } : store'[f] = store[f]
    ]_vars

\* C26 witness: generation 3 was merged into a snapshot whose
\* maxGenerations had been changed to 50 before.
C26_GenerationThreeMerged ==
  /\ step.op = "message"
  /\ step.type = "evolution_progress"
  /\ step.data.generation = 3
  /\ store.evolutionState.currentGeneration = 3
  /\ store.evolutionState.maxGenerations = 50
  /\ store.evolutionState.isRunning

\* C27: an updateReasoningState(p) or updateEvolutionState(p) step sets
\* every top-level field of p to the supplied value, arrays included as a
\* whole, and leaves every top-level field that p lacks as it was.
C27_PartialMerge ==
  [][ step'.op \in { "updateReasoningState", "updateEvolutionState" } =>
        LET p == step'.arg.p
            old == IF step'.op = "updateReasoningState"
                   THEN store.reasoningState ELSE store.evolutionState
            new == IF step'.op = "updateReasoningState"
                   THEN store'.reasoningState ELSE store'.evolutionState
        IN /\ DOMAIN new = DOMAIN old
           /\ \A f \in DOMAIN p : new[f] = p[f]
           /\ \A f \in DOMAIN old \ DOMAIN p : new[f] = old[f] ]_vars

\* C27 witness: thoughts were replaced by a longer list while isActive,
\* set by an earlier update, was kept.
C27_ThoughtsReplacedFlagKept ==
  /\ step.op = "updateReasoningState"
  /\ step.arg.p = [ thoughts |-> << "t1" >> ]
  /\ store.reasoningState.thoughts = << "t1" >>
  /\ store.reasoningState.confidence = 1
  /\ store.reasoningState.isActive

\* C28: a resetReasoningState (resetEvolutionState) step leaves the
\* reasoning (evolution) snapshot equal to its initial default and every
\* other field of the store as it was.
C28_ResetRestoresDefault ==
  [][ /\ step'.op = "resetReasoningState" =>
           /\ store'.reasoningState = initialReasoningState
           /\ \A f \in DOMAIN store \ { "reasoningState" } : store'[f] = store[f]
      /\ step'.op = "resetEvolutionState" =>
           /\ store'.evolutionState = initialEvolutionState
           /\ \A f \in DOMAIN store \ { "evolutionState" } : store'[f] = store[f]
    ]_vars

\* C28 witness: the reasoning snapshot was just reset while every other
\* domain holds something else than its default.
C28_ResetAmongChangedDomains ==
  /\ step.op = "resetReasoningState"
  /\ store.reasoningState = initialReasoningState
  /\ store.evolutionState.currentGeneration = 2
  /\ store.conversations["default"] # << >>
  /\ store.typingUsers # {}
  /\ store.systemMetrics # "null"
  /\ store.mcpServers # << >>

\* C29: typingUsers is a set of user ids: a setTypingUser(u, false) step
\* leaves u absent however often u was added, a setTypingUser(u, true) step
\* leaves u present and changes nothing when u was present already, and
\* neither changes whether any other user is a member.
C29_TypingUsersIsASet ==
  [][ step'.op = "setTypingUser" =>
        LET u == step'.arg.u
        IN /\ (u \in store'.typingUsers) <=> step'.arg.typing
           /\ (step'.arg.typing /\ u \in store.typingUsers)
                => store'.typingUsers = store.typingUsers
           /\ \A v \in UserIds \ {u} :
                (v \in store'.typingUsers) <=> (v \in store.typingUsers) ]_vars

\* C29 witness: u1 has just stopped typing while u2 still is.
C29_OneStoppedOtherStays ==
  /\ step.op = "setTypingUser"
  /\ step.arg = [ u |-> "u1", typing |-> FALSE ]
  /\ store.typingUsers = { "u2" }

\* C30: the conversations Map read from the store at first render holds
\* what it held when it was read, whatever mutators were called since.
C30_PublishedSnapshotKept == held.now = held.taken

\* C31: a step of any store operation other than clearConversation keeps
\* every conversation, does not shorten it and keeps the message at every
\* position (by id); a clearConversation(c) step leaves c empty and every
\* other conversation as it was.
C31_OnlyClearShortens ==
  [][ LET old == store.conversations
          new == store'.conversations
      IN IF step'.op = "clearConversation"
         THEN /\ new[step'.arg.c] = << >>
              /\ \A k \in DOMAIN old \ { step'.arg.c } :
                   k \in DOMAIN new /\ new[k] = old[k]
         ELSE \A k \in DOMAIN old :
                /\ k \in DOMAIN new
                /\ Len(new[k]) >= Len(old[k])
                /\ \A i \in 1..Len(old[k]) : new[k][i].id = old[k][i].id ]_vars

\* C31 witness: 'default' was just cleared while 'c1' still holds a message.
C31_ClearedBesideKept ==
  /\ step.op = "clearConversation"
  /\ step.arg.c = "default"
  /\ store.conversations["default"] = << >>
  /\ "c1" \in DOMAIN store.conversations
  /\ Len(store.conversations["c1"]) = 1

\* C32: an updateEvolutionState step that finds the snapshot running and
\* leaves it running does not lower currentGeneration.
C32_GenerationMonotoneWhileRunning ==
  [][ ( /\ step'.op = "updateEvolutionState"
        /\ store.evolutionState.isRunning
        /\ store'.evolutionState.isRunning )
      => store'.evolutionState.currentGeneration
           >= store.evolutionState.currentGeneration ]_vars

\* A chat_response envelope with a message was processed while a chat
\* subscription was registered.
ChatDelivered ==
  /\ step'.op = "message"
  /\ step'.type = "chat_response"
  /\ HasMessage(step'.data)
  /\ \E c \in ConversationIds :
       Occurs(eventHandlers["chat_response"], ChatSubscriber(c))

C34_StatusIsActualState ==
  [][ /\ \A i \in 1..Len(step'.emitted) :
           step'.emitted[i].event = "connection_status"
             => (step'.emitted[i].connected <=> IsConnected')
      /\ \A i \in 1..Len(step'.settled) :
           step'.settled[i].how = "resolved" => IsConnected' ]_vars

\* C35: when disconnect() returns, the first moment of the interval that
\* lasts until the next explicit connect(), the session is idle:
\* getConnectionState() reports connected = false and isConnecting = false,
\* also when the call found a connection attempt in flight.
C35_IdleAfterDisconnect ==
  [][ step'.op = "disconnect" => ~IsConnected' /\ ~isConnecting' ]_vars

\* C36: in every publish, a handler whose registrations under the event are
\* the same after the publish as before it, so that nobody unsubscribed
\* it meanwhile, is invoked once for each of them, also when other
\* handlers unsubscribed themselves or one another during the publish.
C36_NoHandlerSkipped ==
  [][ (step'.op = "message" /\ step'.emitted # << >>) =>
        LET e == step'.emitted[1].event
        IN \A h \in OnceHandlerIds :
             Count(eventHandlers'[e], h) = Count(eventHandlers[e], h)
               => Count(step'.called, h) = Count(eventHandlers[e], h) ]_vars

\* C37: in every reachable state the reconnect-attempt counter is in
\* 0..maxReconnectAttempts, and so is the number of reconnection timers
\* scheduled since the last open, whatever connect() and disconnect() calls
\* came in between.
C37_CounterInRange ==
  /\ reconnectAttempts \in 0..maxReconnectAttempts
  /\ schedSinceOpen \in 0..maxReconnectAttempts

\* C37 witness: the retries used the budget up, a second explicit connect()
\* created a further socket, disconnect() was called, and the unclean close
\* of that socket has scheduled nothing and left the counter at the maximum.
C37_SpentAndDisconnected ==
  /\ step.op = "close"
  /\ step.sock > 1
  /\ sockets[step.sock].explicit
  /\ nCalls = 2
  /\ reconnectAttempts = maxReconnectAttempts
  /\ schedSinceOpen = maxReconnectAttempts
  /\ failedEmits >= 1
  /\ ws = 0

\* The frames of fs that went out on socket s.
OnSocket(fs, s) == LET Here(f) == f.sock = s IN SelectSeq(fs, Here)

\* C38: of the frames that the open step of a socket puts on that socket,
\* the first ones ever sent on it, the first is the ping: no intent that a
\* connection_status handler sends on connected = true goes out before it.
C38_PingGoesFirst ==
  [][ step'.op = "open" =>
        LET out == OnSocket(step'.sent, step'.sock)
        IN out # << >> => out[1].type = "ping" ]_vars
====
